---------------------------- MODULE Spec2Model ----------------------------
(***************************************************************************)
(* A model of zotero2papis (src/zotero2papis/zotero2papis.py): the class   *)
(* ZoteroSQLParser, its run() loop over the items of a Zotero database and *)
(* getFiles(), which copies an item's attachments into a target directory  *)
(* of the output root, where run() then dumps the item as info.yaml.       *)
(*                                                                         *)
(* Paths are sequences of path components (all absolute); the "path"       *)
(* column of itemAttachments is <<"storage:", name>> for a stored file and *)
(* the components of an absolute path otherwise.  A date is a sequence of  *)
(* characters, so that split(" ") and [:-3] are computed on it; an "extra" *)
(* note is a sequence of symbols (words, separators, "\n").  The model     *)
(* runs with verbose=False and leaves creators, tags, collections and the  *)
(* three timestamp columns out of the dumped record.                       *)
(***************************************************************************)
EXTENDS Integers, Sequences, FiniteSets, TLC

VARIABLES
    db,        \* the Zotero database: itemID -> row of items with its fields and attachment rows
    files,     \* the regular files that exist (source storage, linked files, output tree)
    dirs,      \* the directories that exist
    yaml,      \* content of every info.yaml of the output tree: path -> dumped record
    pc,        \* "idle", "running" (inside run()), "done" (run() returned), "raised"
    exc,       \* the exception that ended the last run(), "" when none
    rows,      \* the result of items_query for the current run: itemIDs in cursor order
    cur,       \* position of the cursor in rows
    phase,     \* "resolve": before getFiles for rows[cur]; "write": after it
    item,      \* self.item, the record under assembly
    ret,       \* what getFiles returned for rows[cur]
    outcome,   \* this run: itemID -> terminal outcome of the item ("" = not reached)
    ops,       \* this run: the writes made to the filesystem
    failed,    \* this run: the attachment keys whose shutil.copyfile raised OSError
    runs,      \* number of run() calls started
    prev,      \* how the previous run() ended: "none", "done", "raised"
    touched    \* the source (database or storage) was changed after the first run

vars == <<db, files, dirs, yaml, pc, exc, rows, cur, phase, item, ret, outcome, ops, failed, runs, prev, touched>>

-----------------------------------------------------------------------------
(* Bounds *)

NumItems == 2
MaxRuns == 2
MaxChunks == 3

ItemIDs == 1 .. NumItems

-----------------------------------------------------------------------------
(* Sequences and strings *)

RECURSIVE ConcatAll(_)
ConcatAll(s) == IF s = <<>> THEN "" ELSE Head(s) \o ConcatAll(Tail(s))

RECURSIVE Flatten(_)
Flatten(ss) == IF ss = <<>> THEN <<>> ELSE Head(ss) \o Flatten(Tail(ss))

\* str.split(sep) for a one-character separator: the pieces between separators
RECURSIVE SplitFrom(_, _, _)
SplitFrom(s, sep, acc) ==
    IF s = <<>> THEN <<acc>>
    ELSE IF Head(s) = sep THEN <<acc>> \o SplitFrom(Tail(s), sep, <<>>)
    ELSE SplitFrom(Tail(s), sep, Append(acc, Head(s)))

Split(s, sep) == SplitFrom(s, sep, <<>>)

\* s[:-3]
DropLast3(s) == IF Len(s) <= 3 THEN <<>> ELSE SubSeq(s, 1, Len(s) - 3)

-----------------------------------------------------------------------------
(* os.path and the filesystem *)

out_dir == <<"out">>
zot_dir == <<"zot">>

Basename(p) == p[Len(p)]
Dirname(p) == SubSeq(p, 1, Len(p) - 1)
Join(p, name) == Append(p, name)

Exists(fs, ds, p) == p \in fs \/ p \in ds

\* os.makedirs: the directory and every missing ancestor
Makedirs(ds, p) == ds \cup { SubSeq(p, 1, k) : k \in 1 .. Len(p) }

InfoPath(target_dir) == Join(target_dir, "info.yaml")

-----------------------------------------------------------------------------
(* Configuration set by initialize_attributes *)

excludedTypes == {"note", "attachment"}

\* the keys of includedAttachments
includedAttachments ==
    { "application/vnd.ms-htmlhelp", "image/vnd.djvu", "application/msword",
      "application/vnd.openxmlformats-officedocument.wordprocessingml.document",
      "application/epub+zip", "application/octet-stream",
      "application/x-mobipocket-ebook", "application/pdf", "text/rtf",
      "application/zip" }

\* translatedTypes.get(t, t)
translatedTypes(t) == IF t = "journalArticle" THEN "article" ELSE t

\* translatedFields.get(n, n)
translatedFields(n) == IF n = "DOI" THEN "doi" ELSE n

-----------------------------------------------------------------------------
(* The databases and source trees the model starts from *)

\* "2016-05-01"
Date2016 == <<"2","0","1","6","-","0","5","-","0","1">>
\* "2017-05-00 May 2017", the form Zotero stores for a date without a day
Date2017 == <<"2","0","1","7","-","0","5","-","0","0"," ","M","a","y"," ","2","0","1","7">>

\* "Citation Key: " as symbols; "Citation" and "Key" are runs of word characters
CitationKeyLiteral == <<"Citation", " ", "Key", ":", " ">>
\* "arXiv:1234 [cs]\nCitation Key: smith2020"
ExtraWithKey == <<"arXiv", ":", "1234", " ", "[", "cs", "]", "\n">> \o CitationKeyLiteral \o <<"smith2020">>

ItemKey(i) == "K" \o ToString(i)
AttKey(i, n) == "A" \o ToString(i) \o "_" \o ToString(n)

StorageDir(k) == zot_dir \o <<"storage", k>>

StoredRow(k, name, mime) == [key |-> k, path |-> <<"storage:", name>>, contentType |-> mime]
LinkedRow(k, dir, name, mime) == [key |-> k, path |-> <<"lib", dir, name>>, contentType |-> mime]

\* what exists of a stored attachment: its file, only its storage directory, or nothing
StoredSource(k, name, state) ==
    [ files |-> IF state = "file" THEN {Join(StorageDir(k), name)} ELSE {},
      dirs  |-> IF state \in {"file", "dir"} THEN {StorageDir(k)} ELSE {} ]

\* what exists of a linked file: the file at its path, only its directory, nothing,
\* or ("stored") only the copy Zotero keeps under storage/{key}
LinkedSource(k, dir, name, state) ==
    [ files |-> IF state = "file" THEN {<<"lib", dir, name>>}
                ELSE IF state = "stored" THEN {Join(StorageDir(k), name)} ELSE {},
      dirs  |-> IF state \in {"file", "dir"} THEN {<<"lib", dir>>}
                ELSE IF state = "stored" THEN {StorageDir(k)} ELSE {} ]

NoSource == [files |-> {}, dirs |-> {}]

Sources(a, b) == [files |-> a.files \cup b.files, dirs |-> a.dirs \cup b.dirs]

Pdf(i) == "p" \o ToString(i) \o ".pdf"
Pdf2(i) == "q" \o ToString(i) \o ".pdf"
Html(i) == "s" \o ToString(i) \o ".html"
OwnDir(i) == "Z" \o ToString(i)

\* an item's attachment rows, in query order, with what exists of them at the source
StoredPdf(i, state) ==
    [ atts |-> <<StoredRow(AttKey(i, 1), Pdf(i), "application/pdf")>>,
      src  |-> StoredSource(AttKey(i, 1), Pdf(i), state) ]

LinkedPdf(i, dir, state) ==
    [ atts |-> <<LinkedRow(AttKey(i, 1), dir, Pdf(i), "application/pdf")>>,
      src  |-> LinkedSource(AttKey(i, 1), dir, Pdf(i), state) ]

StoredHtml(i, state) ==
    [ atts |-> <<StoredRow(AttKey(i, 1), Html(i), "text/html")>>,
      src  |-> StoredSource(AttKey(i, 1), Html(i), state) ]

PdfAndHtml(i) ==
    [ atts |-> <<StoredRow(AttKey(i, 1), Pdf(i), "application/pdf"),
                 StoredRow(AttKey(i, 2), Html(i), "text/html")>>,
      src  |-> Sources(StoredSource(AttKey(i, 1), Pdf(i), "file"),
                       StoredSource(AttKey(i, 2), Html(i), "file")) ]

TwoPdfs(i, state2) ==
    [ atts |-> <<StoredRow(AttKey(i, 1), Pdf(i), "application/pdf"),
                 StoredRow(AttKey(i, 2), Pdf2(i), "application/pdf")>>,
      src  |-> Sources(StoredSource(AttKey(i, 1), Pdf(i), "file"),
                       StoredSource(AttKey(i, 2), Pdf2(i), state2)) ]

LinkedAndStored(i) ==
    [ atts |-> <<LinkedRow(AttKey(i, 1), "Y", Pdf(i), "application/pdf"),
                 StoredRow(AttKey(i, 2), Pdf2(i), "application/pdf")>>,
      src  |-> Sources(LinkedSource(AttKey(i, 1), "Y", Pdf(i), "file"),
                       StoredSource(AttKey(i, 2), Pdf2(i), "file")) ]

NoAttachments == [atts |-> <<>>, src |-> NoSource]

AttachmentKinds ==
    { "none", "pdf", "pdf-nofile", "pdf-gone", "linked", "linked-nofile", "linked-gone",
      "linked-stored", "html", "html-gone", "pdf+html", "pdf+pdf-gone", "linked+pdf" }

Attachments(i, kind) ==
    CASE kind = "none"          -> NoAttachments
      [] kind = "pdf"           -> StoredPdf(i, "file")
      [] kind = "pdf-nofile"    -> StoredPdf(i, "dir")
      [] kind = "pdf-gone"      -> StoredPdf(i, "none")
      [] kind = "linked"        -> LinkedPdf(i, "Y", "file")
      [] kind = "linked-nofile" -> LinkedPdf(i, OwnDir(i), "dir")
      [] kind = "linked-gone"   -> LinkedPdf(i, OwnDir(i), "none")
      [] kind = "linked-stored" -> LinkedPdf(i, OwnDir(i), "stored")
      [] kind = "html"          -> StoredHtml(i, "file")
      [] kind = "html-gone"     -> StoredHtml(i, "none")
      [] kind = "pdf+html"      -> PdfAndHtml(i)
      [] kind = "pdf+pdf-gone"  -> TwoPdfs(i, "none")
      [] kind = "linked+pdf"    -> LinkedAndStored(i)

FieldsT == [title |-> "T", date |-> Date2016]
FieldsU == [title |-> "U", date |-> Date2017, extra |-> ExtraWithKey, DOI |-> "10.1/u"]
FieldsNoTitle == [date |-> Date2016]
FieldsNoDate == [title |-> "T", extra |-> <<>>]
\* "n.d."
FieldsBadDate == [title |-> "T", date |-> <<"n", ".", "d", ".">>]

Template(type, fields, kind) == [typeName |-> type, fields |-> fields, att |-> kind]

NoteTemplate == Template("note", [title |-> "T"], "none")

\* a library of several items: what each of them is drawn from
MainTemplates ==
    { NoteTemplate, Template("book", FieldsU, "pdf"), Template("book", FieldsNoTitle, "pdf") }
    \cup { Template("journalArticle", FieldsT, k) :
             k \in {"none", "pdf", "pdf-nofile", "pdf-gone", "linked", "html-gone", "linked+pdf"} }

\* a library of one item (the others are notes): every kind of fields and attachments
SoloTemplates ==
    { Template("journalArticle", f, k) :
        f \in {FieldsT, FieldsU, FieldsNoTitle, FieldsNoDate, FieldsBadDate},
        k \in AttachmentKinds }

\* the "extra" notes of at most n chunks: the literal, words, a separator, a newline
ExtraChunks == { CitationKeyLiteral, <<"smith2020">>, <<"b">>, <<"-">>, <<"\n">> }

RECURSIVE ChunkSeqs(_)
ChunkSeqs(n) ==
    IF n = 0 THEN { <<>> }
    ELSE ChunkSeqs(n - 1) \cup { Append(cs, c) : cs \in ChunkSeqs(n - 1), c \in ExtraChunks }

Extras == { Flatten(cs) : cs \in ChunkSeqs(MaxChunks) }

\* a library of one item with any "extra" note, or none
RefTemplates ==
    { Template("journalArticle", FieldsT, "pdf") }
    \cup { Template("journalArticle", [title |-> "T", date |-> Date2016, extra |-> x], "pdf") :
              x \in Extras }

Entry(i, t) ==
    [ row  |-> [itemID |-> i, typeName |-> t.typeName, key |-> ItemKey(i),
                fields |-> t.fields, atts |-> Attachments(i, t.att).atts],
      src  |-> Attachments(i, t.att).src ]

\* the libraries of n items whose item i is drawn from universe[i]
RECURSIVE Libraries(_, _)
Libraries(universe, n) ==
    IF n = 0 THEN { <<>> }
    ELSE { Append(lib, Entry(n, t)) : lib \in Libraries(universe, n - 1), t \in universe[n] }

BaseDirs == { zot_dir, zot_dir \o <<"storage">>, <<"lib">>, out_dir }

-----------------------------------------------------------------------------
(* dateutil.parser.parse, for the dates of the model: digits separated by "-" *)
(* (year, year-month or year-month-day) parse to their year when month and   *)
(* day are in range; anything else raises ParserError.                        *)

Digits == {"0","1","2","3","4","5","6","7","8","9"}

DigitValue(c) == CHOOSE n \in 0 .. 9 : ToString(n) = c

IsDigits(t) == Len(t) > 0 /\ \A k \in 1 .. Len(t) : t[k] \in Digits

TwoDigits(t) == IF Len(t) = 2 THEN 10 * DigitValue(t[1]) + DigitValue(t[2]) ELSE 0

DateutilParse(s) ==
    LET parts == Split(s, "-")
        good  == /\ Len(parts) \in 1 .. 3
                 /\ \A k \in 1 .. Len(parts) : IsDigits(parts[k])
                 /\ Len(parts[1]) = 4
                 /\ Len(parts) >= 2 => TwoDigits(parts[2]) \in 1 .. 12
                 /\ Len(parts) = 3 => TwoDigits(parts[3]) \in 1 .. 31
    IN  IF good THEN [exc |-> "", year |-> ConcatAll(parts[1])]
        ELSE [exc |-> "ParserError", year |-> ""]

\* try: parse(self.item["date"])  except: parse(self.item["date"][:-3])
ParseItemDate(it) ==
    IF "date" \notin DOMAIN it THEN [exc |-> "KeyError", year |-> ""]
    ELSE LET first == DateutilParse(it.date)
         IN  IF first.exc = "" THEN first ELSE DateutilParse(DropLast3(it.date))

\* f"{date.year}_{self.item['title']}"
YearTitle(year, it) == year \o "_" \o it.title

-----------------------------------------------------------------------------
(* getFiles *)

\* the local state of one getFiles call, with the filesystem it acts on
GetFilesStart(fs, ds, log, errs) ==
    [ files |-> fs, dirs |-> ds, ops |-> log, failed |-> errs,
      flist |-> <<>>, target_dir |-> <<>>, bound |-> FALSE, has_pdf |-> FALSE,
      status |-> "ok" ]

IsStored(path) == Len(path) > 0 /\ path[1] = "storage:"

\* os.path.join(self.zot_dir, "storage", key, path[8:])
StoredPath(key, path) == StorageDir(key) \o Tail(path)

LinkedDirnameOfFile(path) == Basename(path)

\* os.path.basename(os.path.dirname(path))
LinkedDirname(path) == Basename(Dirname(path))

MakedirsOp(id, d) == [op |-> "makedirs", path |-> d, src |-> <<>>, item |-> id]
CopyOp(id, src, dest) == [op |-> "copyfile", path |-> dest, src |-> src, item |-> id]
DumpOp(id, p) == [op |-> "dump", path |-> p, src |-> <<>>, item |-> id]

\* the copy decision for the main file (lines 325-343); failing: the attachment
\* keys whose shutil.copyfile raises OSError in this call
CopyPrimary(st, id, key, path, original, dest, target_dir, failing) ==
    IF Exists(st.files, st.dirs, dest) /\ ~Exists(st.files, st.dirs, original)
    THEN st
    ELSE IF path # dest
    THEN IF ~Exists(st.files, st.dirs, path)
         THEN IF ~Exists(st.files, st.dirs, Dirname(path))
              THEN [st EXCEPT !.status = "deleted"]
              ELSE st
         ELSE LET made == IF ~Exists(st.files, st.dirs, target_dir)
                          THEN [st EXCEPT !.dirs = Makedirs(@, target_dir),
                                          !.ops = @ \cup {MakedirsOp(id, target_dir)}]
                          ELSE st
              IN  IF key \in failing
                  THEN [made EXCEPT !.status = "OSError", !.failed = @ \cup {key}]
                  ELSE [made EXCEPT !.files = @ \cup {dest},
                                    !.ops = @ \cup {CopyOp(id, path, dest)}]
    ELSE st

\* one iteration of the first loop (lines 267-343)
PrimaryRow(st, id, row, it, failing) ==
    LET stored == IsStored(row.path)
        path   == IF stored THEN StoredPath(row.key, row.path) ELSE row.path
        date   == IF stored THEN ParseItemDate(it) ELSE [exc |-> "", year |-> ""]
        dirname    == IF stored THEN YearTitle(date.year, it) ELSE LinkedDirname(path)
        target_dir == Join(out_dir, dirname)
        original   == Join(StorageDir(row.key), Basename(path))
        dest       == Join(target_dir, Basename(path))
        listed     == [st EXCEPT !.has_pdf = TRUE, !.target_dir = target_dir,
                                 !.bound = TRUE, !.flist = Append(@, Basename(path))]
    IN  IF date.exc # ""
        THEN [st EXCEPT !.has_pdf = TRUE, !.status = date.exc]
        ELSE CopyPrimary(listed, id, row.key, path, original, dest, target_dir, failing)

RECURSIVE PrimaryPass(_, _, _, _, _)
PrimaryPass(st, id, atts, it, failing) ==
    IF atts = <<>> \/ st.status # "ok" THEN st
    ELSE PrimaryPass(PrimaryRow(st, id, Head(atts), it, failing), id, Tail(atts), it, failing)

\* the copy decision for the other files (lines 406-419): a failed copy is caught
CopySecondary(st, id, key, original, dest, failing) ==
    IF Exists(st.files, st.dirs, dest) THEN st
    ELSE IF Exists(st.files, st.dirs, original) /\ Exists(st.files, st.dirs, Dirname(dest))
         THEN IF key \in failing
              THEN [st EXCEPT !.failed = @ \cup {key}]
              ELSE [st EXCEPT !.files = @ \cup {dest},
                              !.ops = @ \cup {CopyOp(id, original, dest)}]
         ELSE st

\* one iteration of the second loop (lines 370-419)
SecondaryRow(st, id, row, it, failing) ==
    IF ~IsStored(row.path) THEN st
    ELSE LET filename == row.path[2]
             original == Join(StorageDir(row.key), filename)
             date     == IF st.has_pdf THEN [exc |-> "", year |-> ""] ELSE ParseItemDate(it)
             target_dir == IF st.has_pdf THEN st.target_dir
                           ELSE Join(out_dir, YearTitle(date.year, it))
             dest     == Join(target_dir, filename)
             made     == IF ~st.has_pdf /\ ~Exists(st.files, st.dirs, target_dir)
                         THEN [st EXCEPT !.dirs = Makedirs(@, target_dir),
                                         !.ops = @ \cup {MakedirsOp(id, target_dir)}]
                         ELSE st
             listed   == [made EXCEPT !.target_dir = target_dir, !.bound = TRUE,
                                      !.flist = Append(@, filename)]
         IN  IF date.exc # ""
             THEN [st EXCEPT !.status = date.exc]
             ELSE CopySecondary(listed, id, row.key, original, dest, failing)

RECURSIVE SecondaryPass(_, _, _, _, _)
SecondaryPass(st, id, atts, it, failing) ==
    IF atts = <<>> \/ st.status # "ok" THEN st
    ELSE SecondaryPass(SecondaryRow(st, id, Head(atts), it, failing), id, Tail(atts), it, failing)

\* the rows of the first query: contentType IN includedAttachments
RECURSIVE PrimaryRows(_)
PrimaryRows(atts) ==
    IF atts = <<>> THEN <<>>
    ELSE IF Head(atts).contentType \in includedAttachments
         THEN <<Head(atts)>> \o PrimaryRows(Tail(atts))
         ELSE PrimaryRows(Tail(atts))

\* lines 421-423: "defaultFile" is no name of the function or the module, so
\* evaluating it, when files == [], raises NameError
ReturnFiles(st) ==
    IF st.status # "ok" THEN st
    ELSE IF st.flist = <<>> THEN [st EXCEPT !.status = "NameError"]
    ELSE st

\* getFiles(conn, itemID, itemKey) on filesystem (fs, ds): its final local state;
\* status "ok": it returned ({"files": flist}, target_dir, False); "deleted": it
\* returned (None, None, True); otherwise the exception it raised
getFiles(fs, ds, log, errs, dbrow, it, failing) ==
    LET first  == PrimaryPass(GetFilesStart(fs, ds, log, errs), dbrow.itemID,
                              PrimaryRows(dbrow.atts), it, failing)
        second == SecondaryPass(first, dbrow.itemID, dbrow.atts, it, failing)
    IN  ReturnFiles(second)

-----------------------------------------------------------------------------
(* The citation key: re.search(r'.*Citation Key: (\w+)', extra) *)

NonWord == {" ", ":", "\n", "[", "]", "-", "."}

IsWord(sym) == sym \notin NonWord

\* the literal "Citation Key: " starts at p and at least one word character follows
LiteralAt(x, p) ==
    /\ p + Len(CitationKeyLiteral) <= Len(x)
    /\ SubSeq(x, p, p + Len(CitationKeyLiteral) - 1) = CitationKeyLiteral
    /\ IsWord(x[p + Len(CitationKeyLiteral)])

\* \w+ is greedy: the whole run of word characters from p on
RECURSIVE WordRun(_, _)
WordRun(x, p) ==
    IF p > Len(x) \/ ~IsWord(x[p]) THEN "" ELSE x[p] \o WordRun(x, p + 1)

\* "." matches anything but a newline: ".*" from s reaches at most the end of the line
RECURSIVE LineEnd(_, _)
LineEnd(x, s) == IF s > Len(x) \/ x[s] = "\n" THEN s ELSE LineEnd(x, s + 1)

\* the positions where the literal can start in a match that begins at s
MatchesFrom(x, s) == { p \in s .. LineEnd(x, s) : LiteralAt(x, p) }

ReSearchLazy(x) ==
    LET starts == { s \in 1 .. Len(x) + 1 : MatchesFrom(x, s) # {} }
    IN  IF starts = {} THEN [found |-> FALSE, group1 |-> ""]
        ELSE LET s == CHOOSE m \in starts : \A o \in starts : m <= o
                 p == CHOOSE m \in MatchesFrom(x, s) : \A o \in MatchesFrom(x, s) : m <= o
             IN  [found |-> TRUE, group1 |-> WordRun(x, p + Len(CitationKeyLiteral))]

\* re.search: the leftmost start that matches; ".*" greedy: the last literal it reaches
ReSearch(x) ==
    LET starts == { s \in 1 .. Len(x) + 1 : MatchesFrom(x, s) # {} }
    IN  IF starts = {} THEN [found |-> FALSE, group1 |-> ""]
        ELSE LET s == CHOOSE m \in starts : \A o \in starts : m <= o
                 p == CHOOSE m \in MatchesFrom(x, s) : \A o \in MatchesFrom(x, s) : m >= o
             IN  [found |-> TRUE, group1 |-> WordRun(x, p + Len(CitationKeyLiteral))]

\* lines 480-485
Ref(fields, itemKey) ==
    IF "extra" \in DOMAIN fields /\ fields.extra # <<>>
    THEN LET matches == ReSearch(fields.extra)
         IN  IF matches.found THEN matches.group1 ELSE itemKey
    ELSE itemKey

-----------------------------------------------------------------------------
(* run *)

\* getFields: the item's (fieldName, value) rows under the translated names
getFields(dbrow) ==
    LET f == dbrow.fields
    IN  [ n \in { translatedFields(k) : k \in DOMAIN f } |->
              f[CHOOSE k \in DOMAIN f : translatedFields(k) = n] ]

\* lines 473-475: a date of several words is cut to its first word
FirstWordOfDate(fields) ==
    IF "date" \in DOMAIN fields /\ Len(Split(fields.date, " ")) > 1
    THEN [fields EXCEPT !.date = Split(fields.date, " ")[1]]
    ELSE fields

\* lines 487-496: self.item, then self.item.update(fields)
NewItem(dbrow, fields) ==
    fields @@ [ref |-> Ref(fields, dbrow.key), type |-> translatedTypes(dbrow.typeName)]

\* items_query: the items of a type not excluded, ORDER BY itemID
RECURSIVE Ascending(_)
Ascending(S) ==
    IF S = {} THEN <<>>
    ELSE LET m == CHOOSE x \in S : \A y \in S : x <= y
         IN  <<m>> \o Ascending(S \ {m})

items_query(d) == Ascending({ i \in DOMAIN d : d[i].typeName \notin excludedTypes })

NoRet == [flist |-> <<>>, target_dir |-> <<>>, deleted |-> FALSE]
NoItem == [ref |-> "", type |-> ""]

AttKeys(dbrow) == { dbrow.atts[k].key : k \in 1 .. Len(dbrow.atts) }

InitFrom(universe) ==
    \E lib \in Libraries(universe, NumItems) :
        /\ db = [i \in ItemIDs |-> lib[i].row]
        /\ files = UNION { lib[i].src.files : i \in ItemIDs }
        /\ dirs = BaseDirs \cup UNION { lib[i].src.dirs : i \in ItemIDs }
        /\ yaml = <<>>
        /\ pc = "idle"
        /\ exc = ""
        /\ rows = <<>>
        /\ cur = 1
        /\ phase = "resolve"
        /\ item = NoItem
        /\ ret = NoRet
        /\ outcome = [i \in ItemIDs |-> ""]
        /\ ops = {}
        /\ failed = {}
        /\ runs = 0
        /\ prev = "none"
        /\ touched = FALSE

Init == InitFrom([i \in ItemIDs |-> MainTemplates])

InitSolo == InitFrom([i \in ItemIDs |-> IF i = 1 THEN SoloTemplates ELSE {NoteTemplate}])

InitRef == InitFrom([i \in ItemIDs |-> IF i = 1 THEN RefTemplates ELSE {NoteTemplate}])

\* run() is called: the connection is opened and items_query executed
StartRun ==
    /\ pc \in {"idle", "done", "raised"}
    /\ runs < MaxRuns
    /\ pc' = "running"
    /\ prev' = IF pc = "idle" THEN "none" ELSE pc
    /\ exc' = ""
    /\ rows' = items_query(db)
    /\ cur' = 1
    /\ phase' = "resolve"
    /\ item' = NoItem
    /\ ret' = NoRet
    /\ outcome' = [i \in ItemIDs |-> ""]
    /\ ops' = {}
    /\ failed' = {}
    /\ runs' = runs + 1
    /\ UNCHANGED <<db, files, dirs, yaml, touched>>

\* an exception leaves run(): the loop is abandoned
Raise(id, e) ==
    /\ pc' = "raised"
    /\ exc' = e
    /\ outcome' = [outcome EXCEPT ![id] = "RAISED"]
    /\ item' = NoItem
    /\ ret' = NoRet
    /\ UNCHANGED <<phase, cur>>

\* lines 467-513 for the row under the cursor: the fields, the title print, the
\* reference id, self.item, and getFiles
ResolveItem ==
    /\ pc = "running"
    /\ cur <= Len(rows)
    /\ phase = "resolve"
    /\ LET id     == rows[cur]
           dbrow  == db[id]
           fields == FirstWordOfDate(getFields(dbrow))
       IN  IF "title" \notin DOMAIN fields
           THEN /\ Raise(id, "KeyError")
                /\ UNCHANGED <<files, dirs, ops, failed>>
           ELSE \E failing \in SUBSET AttKeys(dbrow) :
                  LET it == NewItem(dbrow, fields)
                      r  == getFiles(files, dirs, ops, failed, dbrow, it, failing)
                  IN  /\ files' = r.files
                      /\ dirs' = r.dirs
                      /\ ops' = r.ops
                      /\ failed' = r.failed
                      /\ IF r.status \in {"ok", "deleted"}
                         THEN /\ item' = it
                              /\ ret' = IF r.status = "deleted"
                                        THEN [flist |-> <<>>, target_dir |-> <<>>, deleted |-> TRUE]
                                        ELSE [flist |-> r.flist, target_dir |-> r.target_dir,
                                              deleted |-> FALSE]
                              /\ phase' = "write"
                              /\ UNCHANGED <<pc, exc, outcome, cur>>
                         ELSE Raise(id, r.status)
    /\ UNCHANGED <<db, yaml, rows, runs, prev, touched>>

\* lines 519-525: the directory is made when it is missing and yet holds a listed file
SkipLoopMakes(fs, ds, target_dir, flist) ==
    \E k \in 1 .. Len(flist) :
        ~Exists(fs, ds, target_dir) /\ Exists(fs, ds, Join(target_dir, flist[k]))

MayDumpOver(fs, ds, target_dir) == Exists(fs, ds, target_dir)

\* line 529
MayDump(fs, ds, target_dir) ==
    Exists(fs, ds, target_dir) /\ ~Exists(fs, ds, InfoPath(target_dir))

\* lines 514-531 for the row under the cursor: skip a deleted entry, else list the
\* files in self.item and dump it as info.yaml when the directory has none
WriteItem ==
    /\ pc = "running"
    /\ cur <= Len(rows)
    /\ phase = "write"
    /\ LET id == rows[cur]
       IN  IF ret.deleted
           THEN /\ outcome' = [outcome EXCEPT ![id] = "DELETED"]
                /\ UNCHANGED <<files, dirs, yaml, ops>>
           ELSE LET record == [files |-> ret.flist] @@ item
                    made   == SkipLoopMakes(files, dirs, ret.target_dir, ret.flist)
                    ds     == IF made THEN Makedirs(dirs, ret.target_dir) ELSE dirs
                    log    == IF made THEN ops \cup {MakedirsOp(id, ret.target_dir)} ELSE ops
                    info   == InfoPath(ret.target_dir)
                IN  /\ dirs' = ds
                    /\ IF MayDump(files, ds, ret.target_dir)
                       THEN /\ files' = files \cup {info}
                            /\ yaml' = (info :> record) @@ yaml
                            /\ ops' = log \cup {DumpOp(id, info)}
                            /\ outcome' = [outcome EXCEPT ![id] = "WRITTEN"]
                       ELSE /\ UNCHANGED <<files, yaml>>
                            /\ ops' = log
                            /\ outcome' = [outcome EXCEPT ![id] =
                                   IF Exists(files, ds, ret.target_dir)
                                   THEN "SKIPPED_exists" ELSE "SKIPPED_nodir"]
    /\ cur' = cur + 1
    /\ phase' = "resolve"
    /\ item' = NoItem
    /\ ret' = NoRet
    /\ UNCHANGED <<db, pc, exc, rows, failed, runs, prev, touched>>

\* the cursor is exhausted: run() returns
FinishRun ==
    /\ pc = "running"
    /\ cur > Len(rows)
    /\ pc' = "done"
    /\ UNCHANGED <<db, files, dirs, yaml, exc, rows, cur, phase, item, ret, outcome, ops, failed, runs, prev, touched>>

-----------------------------------------------------------------------------
(* Between two runs the user may change the library: the source is not part *)
(* of the program, the output tree is written by run() alone.                *)

\* an item's title is edited in Zotero
EditTitle ==
    /\ pc \in {"done", "raised"}
    /\ runs < MaxRuns
    /\ ~touched
    /\ \E i \in ItemIDs :
          /\ "title" \in DOMAIN db[i].fields
          /\ db' = [db EXCEPT ![i].fields.title = "V"]
    /\ touched' = TRUE
    /\ UNCHANGED <<files, dirs, yaml, pc, exc, rows, cur, phase, item, ret, outcome, ops, failed, runs, prev>>

SourceFiles == { f \in files : f[1] # out_dir[1] }

\* a source file is removed, with its directory when that is left empty
RemoveSource ==
    /\ pc \in {"done", "raised"}
    /\ runs < MaxRuns
    /\ ~touched
    /\ \E f \in SourceFiles :
          /\ files' = files \ {f}
          /\ dirs' = IF \E g \in files \ {f} : Dirname(g) = Dirname(f)
                     THEN dirs ELSE dirs \ {Dirname(f)}
    /\ touched' = TRUE
    /\ UNCHANGED <<db, yaml, pc, exc, rows, cur, phase, item, ret, outcome, ops, failed, runs, prev>>

Next ==
    \/ StartRun
    \/ ResolveItem
    \/ WriteItem
    \/ FinishRun
    \/ EditTitle
    \/ RemoveSource

Spec == Init /\ [][Next]_vars

SpecSolo == InitSolo /\ [][Next]_vars

SpecRef == InitRef /\ [][Next]_vars

-----------------------------------------------------------------------------
(* Properties *)

Survives(i) == db[i].typeName \notin excludedTypes

RerunWritesNothing ==
    (runs >= 2 /\ prev = "done" /\ ~touched) => ops = {}


AttachmentNames(i) == { Basename(db[i].atts[k].path) : k \in 1 .. Len(db[i].atts) }

\* the info.yaml at p holds item i's record: its reference id, its title, its files
HoldsRecordOf(p, i) ==
    /\ yaml[p].ref = Ref(getFields(db[i]), db[i].key)
    /\ yaml[p].title = db[i].fields.title
    /\ \A k \in 1 .. Len(yaml[p].files) : yaml[p].files[k] \in AttachmentNames(i)

\* C3: after a first run over an empty output root, every item that is not of an
\* excluded type and was not reported deleted has exactly one info.yaml holding its
\* record, whatever target directories the items compute (stated for the items whose
\* target directory exists when run() reaches the write).
OneRecordPerSurvivor ==
    (pc = "done" /\ runs = 1 /\ ~touched) =>
        \A i \in ItemIDs :
            (Survives(i) /\ outcome[i] \notin {"DELETED", "SKIPPED_nodir"}) =>
                Cardinality({ p \in DOMAIN yaml : HoldsRecordOf(p, i) }) = 1

TerminalOutcomes == {"WRITTEN", "SKIPPED_exists", "SKIPPED_nodir", "DELETED"}

\* C4: when run() ends, every item of a type not excluded has reached a terminal
\* outcome, with or without attachment rows, and no excluded item has any (stated
\* for the runs that no missing title or date and no failed copy ended).
EveryItemReachesOutcome ==
    (pc \in {"done", "raised"} /\ exc \notin {"KeyError", "ParserError", "OSError"}) =>
        \A i \in ItemIDs :
            IF Survives(i) THEN outcome[i] \in TerminalOutcomes ELSE outcome[i] = ""

\* C8: every filename listed under "files" in a written record names a file that is
\* in the record's directory (copied there or already present).
ListedFilesExist ==
    \A p \in DOMAIN yaml :
        \A k \in 1 .. Len(yaml[p].files) :
            Exists(files, dirs, Join(Dirname(p), yaml[p].files[k]))

\* C9: run() does not raise at an item without a title.
MissingTitleNotFatal ==
    pc = "raised" => "title" \in DOMAIN getFields(db[rows[cur]])

\* C10: a failed copy of the primary attachment does not leave getFiles and run().
CopyFailureIsLocal ==
    failed # {} => pc # "raised"

\* the row's file and its directory are missing at the source, and the output tree
\* holds no file of its name
GoneAtSource(row) ==
    LET path == IF IsStored(row.path) THEN StoredPath(row.key, row.path) ELSE row.path
    IN  /\ row.contentType \in includedAttachments \/ IsStored(row.path)
        /\ ~Exists(files, dirs, path)
        /\ ~Exists(files, dirs, Dirname(path))
        /\ \A f \in files : f[1] = out_dir[1] => Basename(f) # Basename(path)

\* C5: when getFiles returns for an item that has an attachment (of the first or of
\* the second query) whose source file and directory are missing and whose
\* destination does not exist, it returns "deleted" and has made no directory and
\* copied no file; run() then writes no info.yaml for the item.
DeletedAtSource ==
    [][ /\ ( /\ pc = "running" /\ phase = "resolve" /\ phase' = "write"
             /\ \E k \in 1 .. Len(db[rows[cur]].atts) : GoneAtSource(db[rows[cur]].atts[k]) )
           => (ret'.deleted /\ files' = files /\ dirs' = dirs)
        /\ (pc = "running" /\ phase = "write" /\ ret.deleted) => yaml' = yaml ]_vars

\* the first four characters of the item's date field
YearOfDate(i) == ConcatAll(SubSeq(db[i].fields.date, 1, 4))

KeyPositions(line) ==
    { p \in 1 .. Len(line) :
        /\ p + 5 <= Len(line)
        /\ \A k \in 1 .. 5 : line[p + k - 1] = CitationKeyLiteral[k]
        /\ line[p + 5] \notin NonWord }

\* the word that starts at position p of a line
TokenAt(line, p) ==
    LET n == CHOOSE m \in 1 .. Len(line) :
                 /\ p + m - 1 <= Len(line)
                 /\ \A k \in p .. p + m - 1 : line[k] \notin NonWord
                 /\ (p + m <= Len(line) => line[p + m] \in NonWord)
    IN  ConcatAll(SubSeq(line, p, p + n - 1))

\* the token after "Citation Key: " in the first line of "extra" that has one (after
\* the last one of that line), the item's key when no line has one
ExpectedRef(i) ==
    LET f     == db[i].fields
        lines == IF "extra" \in DOMAIN f THEN Split(f.extra, "\n") ELSE <<>>
        with  == { n \in 1 .. Len(lines) : KeyPositions(lines[n]) # {} }
    IN  IF with = {} THEN db[i].key
        ELSE LET n == CHOOSE m \in with : \A o \in with : m <= o
                 p == CHOOSE m \in KeyPositions(lines[n]) :
                          \A o \in KeyPositions(lines[n]) : m >= o
             IN  TokenAt(lines[n], p + 5)

\* C7: the "ref" of an item's record is the token that follows "Citation Key: " in
\* its "extra" field when a line of it has one, and the item's key otherwise.
CitationKeyRef ==
    /\ (pc = "running" /\ phase = "write") => item.ref = ExpectedRef(rows[cur])
    /\ \A p \in DOMAIN yaml :
          \E i \in ItemIDs : Survives(i) /\ yaml[p].ref = ExpectedRef(i)

\* a record was written whose ref is the key of the second of two "Citation Key: "
\* on one line
CitationKeyWitness ==
    \E p \in DOMAIN yaml :
        /\ yaml[p].ref = "b"
        /\ db[1].fields.extra = CitationKeyLiteral \o CitationKeyLiteral \o <<"b">>

\* the files getFiles has copied for the item under the cursor in this run
CopiedFor(i) == { o \in ops : o.op = "copyfile" /\ o.item = i }

\* C11: when getFiles has returned a target directory for an item, every file it
\* copied for the item, in the first loop and in the second, lies in that
\* directory, the one in which run() then writes info.yaml.
OneTargetDirPerItem ==
    (pc = "running" /\ phase = "write" /\ ~ret.deleted) =>
        \A o \in CopiedFor(rows[cur]) : Dirname(o.path) = ret.target_dir

\* {zot_dir}/storage/{key}/{basename(path)} of an attachment row
RealSource(row) == <<"zot", "storage", row.key, row.path[Len(row.path)]>>

\* the rows of the first query whose path has no "storage:" prefix
LegacyRows(i) ==
    LET prim == PrimaryRows(db[i].atts)
    IN  { prim[k] : k \in { n \in 1 .. Len(prim) : prim[n].path[1] # "storage:" } }

\* C12: for a primary attachment without "storage:" prefix, the file copied to the
\* destination is {zot_dir}/storage/{key}/{basename(path)}, and the entry is
\* reported deleted only when the directory of that location is missing.
LegacySourceLocation ==
    (pc = "running" /\ phase = "write") =>
        \A row \in LegacyRows(rows[cur]) :
            /\ \A o \in CopiedFor(rows[cur]) :
                   Basename(o.path) = Basename(row.path) => o.src = RealSource(row)
            /\ (ret.deleted /\ Len(db[rows[cur]].atts) = 1) =>
                   ~Exists(files, dirs, Dirname(RealSource(row)))


=============================================================================
